---- MODULE Spec2Model ----
(***************************************************************************)
(* A model of EarthworkCrossSection.py: the EarthworkCrossSection          *)
(* dataclass (construction with __post_init__, __repr__, the four          *)
(* distance / volume queries, the static helper find_cutfill) and the      *)
(* demonstration main().                                                   *)
(*                                                                         *)
(* Python's int arithmetic is exact, on integers of any size; its float    *)
(* arithmetic is IEEE 754 double arithmetic, modelled bit for bit: every   *)
(* float operation rounds its exact result to 53 significant bits, ties    *)
(* to even, within the exponent range of a double (overflow to the         *)
(* infinities, gradual underflow to zero, nan).                            *)
(***************************************************************************)
EXTENDS Integers, Sequences, FiniteSets, TLC

VARIABLES objs, call, ret, stdout

vars == <<objs, call, ret, stdout>>

(***************************************************************************)
(* Natural numbers of any size: little-endian sequences of limbs in base   *)
(* 2^14, without high zero limbs (<<>> is 0).  They carry the magnitudes   *)
(* of ints, the 53-bit significands of doubles and their exact sums,       *)
(* products and quotients.  A loop over the limbs of a number is written   *)
(* as a recursion on the two halves of its index range, the carry handed   *)
(* from one half to the other.                                             *)
(***************************************************************************)
Abs(n) == IF n < 0 THEN -n ELSE n

Min(i, j) == IF i < j THEN i ELSE j

Max(i, j) == IF i < j THEN j ELSE i

LimbBits == 14

Base == 2^LimbBits

Limb(a, i) == IF i <= Len(a) THEN a[i] ELSE 0

\* the largest element of a nonempty set of integers
Largest(S) == CHOOSE i \in S : \A j \in S : j <= i

\* a without its high zero limbs
BNorm(a) ==
    IF a = <<>> \/ a[Len(a)] # 0 THEN a
    ELSE SubSeq(a, 1, Largest({0} \cup {i \in 1..Len(a) : a[i] # 0}))

RECURSIVE BFromNat(_)
BFromNat(n) == IF n = 0 THEN <<>> ELSE <<n % Base>> \o BFromNat(n \div Base)

\* the value of a, which must fit a machine integer of the checker
RECURSIVE BToNat(_)
BToNat(a) == IF a = <<>> THEN 0 ELSE a[1] + Base * BToNat(Tail(a))

\* the limbs of two adjacent index ranges and the carry out of the second
BJoin(first, second) == [out |-> first \o second.out, c |-> second.c]

\* the limbs lo..hi of a + b + carry, and the carry out of limb hi
RECURSIVE BAddRange(_, _, _, _, _)
BAddHigh(a, b, mid, hi, low) == BJoin(low.out, BAddRange(a, b, mid + 1, hi, low.c))

BAddRange(a, b, lo, hi, carry) ==
    IF lo = hi
    THEN [out |-> <<(Limb(a, lo) + Limb(b, lo) + carry) % Base>>,
          c   |-> (Limb(a, lo) + Limb(b, lo) + carry) \div Base]
    ELSE BAddHigh(a, b, (lo + hi) \div 2, hi,
                  BAddRange(a, b, lo, (lo + hi) \div 2, carry))

BAdd(a, b) ==
    IF a = <<>> THEN b
    ELSE IF b = <<>> THEN a
    ELSE BNorm(BAddRange(a, b, 1, Max(Len(a), Len(b)) + 1, 0).out)

\* the limbs lo..hi of a - b - borrow, and the borrow out of limb hi
RECURSIVE BSubRange(_, _, _, _, _)
BSubHigh(a, b, mid, hi, low) == BJoin(low.out, BSubRange(a, b, mid + 1, hi, low.c))

BSubRange(a, b, lo, hi, borrow) ==
    IF lo = hi
    THEN [out |-> <<(a[lo] - Limb(b, lo) - borrow + Base) % Base>>,
          c   |-> IF a[lo] - Limb(b, lo) - borrow < 0 THEN 1 ELSE 0]
    ELSE BSubHigh(a, b, (lo + hi) \div 2, hi,
                  BSubRange(a, b, lo, (lo + hi) \div 2, borrow))

\* a - b for a >= b
BSub(a, b) == IF b = <<>> THEN a ELSE BNorm(BSubRange(a, b, 1, Len(a), 0).out)

\* -1, 0, 1 as a < b, a = b, a > b at the highest limb of D, where a and b
\* of equal length differ
BCmpAt(a, b, D) ==
    IF D = {} THEN 0 ELSE IF a[Largest(D)] < b[Largest(D)] THEN -1 ELSE 1

\* -1, 0, 1 as a < b, a = b, a > b
BCmp(a, b) ==
    IF Len(a) < Len(b) THEN -1
    ELSE IF Len(a) > Len(b) THEN 1
    ELSE BCmpAt(a, b, {i \in 1..Len(a) : a[i] # b[i]})

\* the limbs lo..hi of a * k + carry, and the carry out of limb hi
RECURSIVE BMulSmallRange(_, _, _, _, _)
BMulSmallHigh(a, k, mid, hi, low) ==
    BJoin(low.out, BMulSmallRange(a, k, mid + 1, hi, low.c))

BMulSmallRange(a, k, lo, hi, carry) ==
    IF lo = hi
    THEN [out |-> <<(a[lo] * k + carry) % Base>>, c |-> (a[lo] * k + carry) \div Base]
    ELSE BMulSmallHigh(a, k, (lo + hi) \div 2, hi,
                       BMulSmallRange(a, k, lo, (lo + hi) \div 2, carry))

BMulSmallCarry(r) == BNorm(r.out \o <<r.c>>)

\* a * k for 0 <= k <= Base
BMulSmall(a, k) ==
    IF a = <<>> THEN a ELSE BMulSmallCarry(BMulSmallRange(a, k, 1, Len(a), 0))

\* a * Base^j
BShlLimbs(a, j) == IF a = <<>> THEN a ELSE [i \in 1..j |-> 0] \o a

\* a times the limbs lo..hi of b, each at its place
RECURSIVE BMulRange(_, _, _, _)
BMulRange(a, b, lo, hi) ==
    IF lo = hi THEN BShlLimbs(BMulSmall(a, b[lo]), lo - 1)
    ELSE BAdd(BMulRange(a, b, lo, (lo + hi) \div 2),
              BMulRange(a, b, (lo + hi) \div 2 + 1, hi))

BMul(a, b) == IF a = <<>> \/ b = <<>> THEN <<>> ELSE BMulRange(a, b, 1, Len(b))

\* the quotient limbs hi..lo, highest first, of (rem * Base^hi + the limbs
\* lo..hi of a) by k, and the remainder
RECURSIVE BDivSmallRange(_, _, _, _, _)
BDivSmallLow(a, k, lo, mid, high) ==
    BJoin(high.out, BDivSmallRange(a, k, lo, mid, high.c))

BDivSmallRange(a, k, lo, hi, rem) ==
    IF lo = hi
    THEN [out |-> <<(rem * Base + a[lo]) \div k>>, c |-> (rem * Base + a[lo]) % k]
    ELSE BDivSmallLow(a, k, lo, (lo + hi) \div 2,
                      BDivSmallRange(a, k, (lo + hi) \div 2 + 1, hi, rem))

BDivTrim(d, n) == [q |-> BNorm([i \in 1..n |-> d.out[n + 1 - i]]), r |-> d.c]

\* quotient and remainder of a by k, 0 < k <= Base
BDivSmall(a, k) ==
    IF a = <<>> THEN [q |-> <<>>, r |-> 0]
    ELSE BDivTrim(BDivSmallRange(a, k, 1, Len(a), 0), Len(a))

\* a * 2^k
BShl(a, k) == BShlLimbs(BMulSmall(a, 2^(k % LimbBits)), k \div LimbBits)

\* floor(a / 2^k)
BShr(a, k) ==
    IF k \div LimbBits >= Len(a) THEN <<>>
    ELSE BDivSmall(SubSeq(a, k \div LimbBits + 1, Len(a)), 2^(k % LimbBits)).q

RECURSIVE NatBitLen(_)
NatBitLen(n) == IF n = 0 THEN 0 ELSE 1 + NatBitLen(n \div 2)

BBitLen(a) ==
    IF a = <<>> THEN 0 ELSE LimbBits * (Len(a) - 1) + NatBitLen(a[Len(a)])

BIsOdd(a) == a # <<>> /\ a[1] % 2 = 1

\* q or q + 1, as the remainder compares with one half (cmp = -1, 0, 1)
BRoundUp(q, cmp, inexact) ==
    IF cmp > 0 \/ (cmp = 0 /\ (inexact \/ BIsOdd(q))) THEN BAdd(q, <<1>>) ELSE q

\* the rounding of a to a multiple of 2^k, given q = floor(a / 2^k)
BRoundQuotient(a, k, inexact, q) ==
    BRoundUp(q, BCmp(BSub(a, BShl(q, k)), BShl(<<1>>, k - 1)), inexact)

\* round-half-even of (a + u) / 2^k to a natural number, where 0 <= u < 1
\* and u > 0 exactly when `inexact`
BRoundShr(a, k, inexact) ==
    IF k = 0 THEN a ELSE BRoundQuotient(a, k, inexact, BShr(a, k))

(***************************************************************************)
(* Python numbers.                                                         *)
(*   int    [ty |-> "int", s |-> sign (0 or 1), m |-> magnitude]: the      *)
(*          integer (-1)^s * m, of any size; s = 0 for zero                *)
(*   float  [ty |-> "float", cls |-> "finite", s |-> sign bit,             *)
(*           m |-> significand, e |-> exponent]: the double                *)
(*          (-1)^s * m * 2^e.  A normal double has a significand of        *)
(*          exactly 53 bits and MinExp <= e <= MaxExp, a subnormal one a   *)
(*          shorter significand and e = MinExp, the zeros +0.0 and -0.0    *)
(*          have m = <<>>, e = 0.  cls |-> "inf" is the infinity of sign   *)
(*          s, cls |-> "nan" the not-a-number (whose sign no operation of  *)
(*          the program shows).                                            *)
(*   error  [ty |-> "error", exc |-> name]: the exception an operation     *)
(*          raised; every operation hands on the error of an operand.      *)
(* int arithmetic is exact.  float arithmetic is IEEE 754 binary64: every  *)
(* result is rounded to the nearest double, ties to even; a result of      *)
(* magnitude 2^1024 or more after rounding is an infinity, a result below  *)
(* 2^-1022 keeps fewer bits and may round to zero, inf - inf and inf * 0   *)
(* are nan.                                                                *)
(***************************************************************************)
Precision == 53

\* the exponent of the last bit of the subnormal doubles
MinExp == -1074

\* the exponent of the last bit of the largest doubles
MaxExp == 971

IntOf(s, m) == [ty |-> "int", s |-> IF m = <<>> THEN 0 ELSE s, m |-> m]

\* the int literal n
PyInt(n) == IntOf(IF n < 0 THEN 1 ELSE 0, BFromNat(Abs(n)))

Finite(s, m, e) == [ty |-> "float", cls |-> "finite", s |-> s, m |-> m, e |-> e]

FZero(s) == Finite(s, <<>>, 0)

FInf(s) == [ty |-> "float", cls |-> "inf", s |-> s, m |-> <<>>, e |-> 0]

FNan == [ty |-> "float", cls |-> "nan", s |-> 0, m |-> <<>>, e |-> 0]

Error(exc) == [ty |-> "error", exc |-> exc]

IsZero(x) == x.cls = "finite" /\ x.m = <<>>

\* the double (-1)^s * m * 2^e for a significand m of at most 53 bits at an
\* exponent e >= MinExp: an infinity when e is beyond the largest exponent
Ranged(s, m, e) == IF e > MaxExp THEN FInf(s) ELSE Finite(s, m, e)

\* the same for a rounded significand q, which is zero when the value
\* underflowed and has 54 bits when the rounding carried into the next
\* power of two
Pack(s, q, e) ==
    IF q = <<>> THEN FZero(s)
    ELSE IF BBitLen(q) > Precision THEN Ranged(s, BShr(q, 1), e + 1)
    ELSE Ranged(s, q, e)

\* RoundDouble for a # 0, given the exponent t of the last bit the result
\* keeps
RoundAt(s, a, e, inexact, t) ==
    IF t <= e THEN Ranged(s, BShl(a, e - t), t)
    ELSE Pack(s, BRoundShr(a, t - e, inexact), t)

\* the double nearest to (-1)^s * (a + u) * 2^e, 0 <= u < 1, u > 0 exactly
\* when `inexact` (then a has more bits than the result keeps): 53 bits are
\* kept, fewer where the 53rd would lie below 2^MinExp
RoundDouble(s, a, e, inexact) ==
    IF a = <<>> THEN FZero(s)
    ELSE RoundAt(s, a, e, inexact, Max(e + BBitLen(a) - Precision, MinExp))

\* the conversion of an int to float raises when the int is out of range
IntToFloat(f) == IF f.cls = "inf" THEN Error("OverflowError") ELSE f

\* float(x)
ToFloat(x) ==
    IF x.ty = "int" THEN IntToFloat(RoundDouble(x.s, x.m, 0, FALSE)) ELSE x

\* the sign bit of a float: set for negative numbers and for -0.0

FNeg(x) == IF x.cls = "nan" THEN x ELSE [x EXCEPT !.s = 1 - @]

\* (-1)^sx * ax * 2^e + (-1)^sy * ay * 2^e for opposite signs, given how ax
\* compares with ay; x - x is +0.0
FAddOpposite(sx, ax, sy, ay, e, cmp) ==
    IF cmp = 0 THEN FZero(0)
    ELSE RoundDouble(IF cmp > 0 THEN sx ELSE sy,
                     IF cmp > 0 THEN BSub(ax, ay) ELSE BSub(ay, ax), e, FALSE)

\* (-1)^sx * ax * 2^e + (-1)^sy * ay * 2^e
FAddAligned(sx, ax, sy, ay, e) ==
    IF sx = sy THEN RoundDouble(sx, BAdd(ax, ay), e, FALSE)
    ELSE FAddOpposite(sx, ax, sy, ay, e, BCmp(ax, ay))

FAdd(x, y) ==
    IF x.cls = "nan" \/ y.cls = "nan" THEN FNan
    ELSE IF x.cls = "inf" THEN (IF y.cls = "inf" /\ y.s # x.s THEN FNan ELSE x)
    ELSE IF y.cls = "inf" THEN y
    ELSE IF x.m = <<>> /\ y.m = <<>> THEN FZero(IF x.s = 1 /\ y.s = 1 THEN 1 ELSE 0)
    ELSE IF x.m = <<>> THEN y
    ELSE IF y.m = <<>> THEN x
    ELSE FAddAligned(x.s, BShl(x.m, x.e - Min(x.e, y.e)),
                     y.s, BShl(y.m, y.e - Min(x.e, y.e)), Min(x.e, y.e))

FMul(x, y) ==
    IF x.cls = "nan" \/ y.cls = "nan" THEN FNan
    ELSE IF x.cls = "inf" \/ y.cls = "inf"
    THEN (IF IsZero(x) \/ IsZero(y) THEN FNan ELSE FInf((x.s + y.s) % 2))
    ELSE RoundDouble((x.s + y.s) % 2, BMul(x.m, y.m), x.e + y.e, FALSE)

\* extra quotient bits of a division, enough to round the quotient of any
\* dividend
GuardBits == 8 * LimbBits

FDivRound(s, d, e) == RoundDouble(s, d.q, e, d.r # 0)

\* (-1)^s * m * 2^e / k for an integer k # 0 with |k| <= 2^14, rounded once
FDivInt(s, m, e, k) ==
    FDivRound((s + (IF k < 0 THEN 1 ELSE 0)) % 2,
              BDivSmall(BShl(m, GuardBits), Abs(k)), e - GuardBits)

\* x / k for a float x
FDiv(x, k) ==
    IF x.cls = "nan" THEN x
    ELSE IF x.cls = "inf" THEN FInf((x.s + (IF k < 0 THEN 1 ELSE 0)) % 2)
    ELSE FDivInt(x.s, x.m, x.e, k)

\* the value of a small int as a machine integer
IntValue(x) == (1 - 2 * x.s) * BToNat(x.m)

\* x + y of two ints, given how |x| compares with |y|
IAddOpposite(x, y, cmp) ==
    IF cmp = 0 THEN IntOf(0, <<>>)
    ELSE IF cmp > 0 THEN IntOf(x.s, BSub(x.m, y.m))
    ELSE IntOf(y.s, BSub(y.m, x.m))

IAdd(x, y) ==
    IF x.s = y.s THEN IntOf(x.s, BAdd(x.m, y.m))
    ELSE IAddOpposite(x, y, BCmp(x.m, y.m))

INeg(x) == IntOf(1 - x.s, x.m)

IMul(x, y) == IntOf((x.s + y.s) % 2, BMul(x.m, y.m))

\* a float operation on two operands of which one may have raised
FAddOf(fx, fy) ==
    IF fx.ty = "error" THEN fx ELSE IF fy.ty = "error" THEN fy ELSE FAdd(fx, fy)

FSubOf(fx, fy) ==
    IF fx.ty = "error" THEN fx ELSE IF fy.ty = "error" THEN fy
    ELSE FAdd(fx, FNeg(fy))

FMulOf(fx, fy) ==
    IF fx.ty = "error" THEN fx ELSE IF fy.ty = "error" THEN fy ELSE FMul(fx, fy)

\* x + y: exact on two ints, else the float sum of the operands as floats
PyAdd(x, y) ==
    IF x.ty = "int" /\ y.ty = "int" THEN IAdd(x, y)
    ELSE FAddOf(ToFloat(x), ToFloat(y))

PySub(x, y) ==
    IF x.ty = "int" /\ y.ty = "int" THEN IAdd(x, INeg(y))
    ELSE FSubOf(ToFloat(x), ToFloat(y))

PyMul(x, y) ==
    IF x.ty = "int" /\ y.ty = "int" THEN IMul(x, y)
    ELSE FMulOf(ToFloat(x), ToFloat(y))

\* x / y for an int divisor y # 0 with |y| <= 2^14 (the divisors of the
\* program are the int literals 100 and 2*27): always a float.  int / int is
\* the exact quotient rounded once, and raises when that is out of range;
\* float / int divides by float(y), which is exact, and overflows to inf
PyTrueDiv(x, y) ==
    IF x.ty = "error" THEN x
    ELSE IF x.ty = "int" THEN IntToFloat(FDivInt(x.s, x.m, 0, IntValue(y)))
    ELSE FDiv(x, IntValue(y))

\* the float literal written n/d in decimal, e.g. .3 as PyFloat(3, 10)
PyFloat(n, d) == PyTrueDiv(PyInt(n), PyInt(d))

PyAbs(x) ==
    IF x.ty = "error" THEN x
    ELSE IF x.ty = "int" THEN IntOf(0, x.m)
    ELSE [x EXCEPT !.s = 0]

\* floor of a finite float x of negative exponent, given q = floor(|x|)
FloorOf(x, q) ==
    IF x.s = 0 THEN IntOf(0, q)
    ELSE IntOf(1, IF BShl(q, -x.e) = x.m THEN q ELSE BAdd(q, <<1>>))

\* math.floor: always an int; raises on the infinities and on nan
PyFloor(x) ==
    IF x.ty \in {"error", "int"} THEN x
    ELSE IF x.cls = "nan" THEN Error("ValueError")
    ELSE IF x.cls = "inf" THEN Error("OverflowError")
    ELSE IF x.e >= 0 THEN IntOf(x.s, BShl(x.m, x.e))
    ELSE FloorOf(x, BShr(x.m, -x.e))

Zero == PyInt(0)

One == PyInt(1)

(***************************************************************************)
(* Comparison of numbers, as Python's <, == and > compare them: by their   *)
(* exact values, whatever the types; -0.0 equals 0, and nan is neither     *)
(* less than, equal to nor greater than anything.                          *)
(***************************************************************************)
\* the exponent of a number seen as (-1)^s * m * 2^e
ExpOf(x) == IF x.ty = "int" THEN 0 ELSE x.e

IsNan(x) == x.ty = "float" /\ x.cls = "nan"

IsInf(x) == x.ty = "float" /\ x.cls = "inf"

\* -1, 0, 1 as x < y, x = y, x > y for two finite numbers
FiniteCmp(x, y, e) ==
    IF x.m = <<>> /\ y.m = <<>> THEN 0
    ELSE IF x.m = <<>> THEN (IF y.s = 1 THEN 1 ELSE -1)
    ELSE IF y.m = <<>> THEN (IF x.s = 1 THEN -1 ELSE 1)
    ELSE IF x.s # y.s THEN (IF x.s = 1 THEN -1 ELSE 1)
    ELSE (1 - 2 * x.s) * BCmp(BShl(x.m, ExpOf(x) - e), BShl(y.m, ExpOf(y) - e))

\* -1, 0, 1 as x < y, x = y, x > y; 2 when one of them is nan
NumCmp(x, y) ==
    IF IsNan(x) \/ IsNan(y) THEN 2
    ELSE IF IsInf(x) /\ IsInf(y) THEN y.s - x.s
    ELSE IF IsInf(x) THEN 1 - 2 * x.s
    ELSE IF IsInf(y) THEN 2 * y.s - 1
    ELSE FiniteCmp(x, y, Min(ExpOf(x), ExpOf(y)))

NumEq(x, y) == NumCmp(x, y) = 0

NumLt(x, y) == NumCmp(x, y) = -1

NumLe(x, y) == NumCmp(x, y) \in {-1, 0}

(***************************************************************************)
(* String formatting                                                       *)
(***************************************************************************)
Digit(k) ==
    CASE k = 0 -> "0" [] k = 1 -> "1" [] k = 2 -> "2" [] k = 3 -> "3"
      [] k = 4 -> "4" [] k = 5 -> "5" [] k = 6 -> "6" [] k = 7 -> "7"
      [] k = 8 -> "8" [] k = 9 -> "9"

\* decimal digits of a natural number below 10^4
RECURSIVE NatDigits(_)
NatDigits(n) == IF n < 10 THEN Digit(n) ELSE NatDigits(n \div 10) \o Digit(n % 10)

\* the three and the four digits of a number below 10^3 and 10^4
Digits3(n) == Digit(n \div 100) \o Digit((n \div 10) % 10) \o Digit(n % 10)

Digits4(n) == Digit(n \div 1000) \o Digits3(n % 1000)

\* the digits lo..hi in base k, lowest first, of q, and what is left of q
\* above them
RECURSIVE DecRange(_, _, _, _)
DecDigit(d) == [out |-> <<d.r>>, c |-> d.q]

DecHigh(k, mid, hi, low) == BJoin(low.out, DecRange(low.c, k, mid + 1, hi))

DecRange(q, k, lo, hi) ==
    IF lo = hi THEN DecDigit(BDivSmall(q, k))
    ELSE DecHigh(k, (lo + hi) \div 2, hi, DecRange(q, k, lo, (lo + hi) \div 2))

\* the n digits of a in base k, lowest first, without high zeros
Decimal(a, k, n) == BNorm(DecRange(a, k, 1, n).out)

\* the groups lo..hi of decimal digits c, highest first: the highest one
\* of all as it is, the others with `width` digits after a separator
RECURSIVE GroupsStr(_, _, _, _, _)
GroupsStr(c, lo, hi, sep, width) ==
    IF lo = hi
    THEN IF lo = Len(c) THEN NatDigits(c[lo])
         ELSE sep \o (IF width = 3 THEN Digits3(c[lo]) ELSE Digits4(c[lo]))
    ELSE GroupsStr(c, (lo + hi) \div 2 + 1, hi, sep, width) \o
         GroupsStr(c, lo, (lo + hi) \div 2, sep, width)

AllGroupsStr(c, sep, width) == GroupsStr(c, 1, Len(c), sep, width)

\* decimal digits of a natural number of any size, in groups of four; a
\* group takes more than 13 bits
Digits(a) ==
    IF a = <<>> THEN "0"
    ELSE AllGroupsStr(Decimal(a, 10000, BBitLen(a) \div 13 + 1), "", 4)

\* decimal digits with a ',' between groups of three; a group takes more
\* than 9 bits
DigitsGrouped(a) ==
    IF a = <<>> THEN "0"
    ELSE AllGroupsStr(Decimal(a, 1000, BBitLen(a) \div 9 + 1), ",", 3)

\* zero padding between the sign and the digits, up to a total width
RECURSIVE ZeroPad(_, _, _)
ZeroPad(sign, body, width) ==
    IF Len(sign) + Len(body) >= width THEN sign \o body
    ELSE ZeroPad(sign, "0" \o body, width)

Sign(x) == IF x.s = 1 THEN "-" ELSE ""

\* str(int), the format of an f-string field without a format spec
IntStr(n) == Sign(n) \o Digits(n.m)

\* the natural number nearest to |x| * k for a finite float x, ties to
\* even: the digits of a fixed-point format, which rounds the exact binary
\* value of the double
RoundHalfEven(x, k) ==
    IF x.e >= 0 THEN BShl(BMulSmall(x.m, k), x.e)
    ELSE BRoundShr(BMulSmall(x.m, k), -x.e, FALSE)

\* format(n, '02d'): defined for int only; a float raises ValueError
Fmt02d(n) == ZeroPad(Sign(n), Digits(n.m), 2)

\* format(x, '03.0f') of a float: rounds to an integer, pads to width 3; the
\* sign is the sign bit of x, also when x rounds to zero
Fmt03_0f(x) ==
    IF x.cls = "nan" THEN "nan"
    ELSE IF x.cls = "inf" THEN ZeroPad(Sign(x), "inf", 3)
    ELSE ZeroPad(Sign(x), Digits(RoundHalfEven(x, 1)), 3)

\* the digits of a number given in tenths, last digit split off by d
Comma1fJoin(d) == DigitsGrouped(d.q) \o "." \o Digit(d.r)

\* format(x, ',.1f') of a float: one decimal, thousands separated by ','
FmtComma1f(x) ==
    IF x.cls = "nan" THEN "nan"
    ELSE IF x.cls = "inf" THEN Sign(x) \o "inf"
    ELSE Sign(x) \o Comma1fJoin(BDivSmall(RoundHalfEven(x, 10), 10))

(***************************************************************************)
(* Optional string: the _station field, None or a str                      *)
(***************************************************************************)
None == [isNone |-> TRUE, str |-> ""]

Str(s) == [isNone |-> FALSE, str |-> s]

(***************************************************************************)
(* class EarthworkCrossSection                                             *)
(***************************************************************************)
\* the dataclass fields, as the generated __init__ stores them
EarthworkCrossSection(position, cut, fill, station) ==
    [position |-> position, cut |-> cut, fill |-> fill, station |-> station]

\* yards conversion and end-area averaging: the literal (2*27)
CutfillDivisor == 2 * 27

\* the f-string of line 32, given the two numbers: the format code 'd'
\* raises ValueError on a float
station_label(self, station_num, station_addon) ==
    IF station_addon.ty = "error"
    THEN [raised |-> station_addon.exc, obj |-> self]
    ELSE IF station_addon.ty # "int"
    THEN [raised |-> "ValueError", obj |-> self]
    ELSE [raised |-> "",
          obj |-> [self EXCEPT !.station =
                      Str(IntStr(station_num) \o "+" \o Fmt02d(station_addon))]]

\* lines 31-32, given station_num
station_of(self, station_num) ==
    IF station_num.ty = "error"
    THEN [raised |-> station_num.exc, obj |-> self]
    ELSE station_label(self, station_num,
                       PySub(self.position, PyMul(station_num, PyInt(100))))

\* a __post_init__ that tests the label's truth value instead of `is not None`
post_init_truthy(self) ==
    IF ~self.station.isNone /\ self.station.str # ""
    THEN [raised |-> "", obj |-> self]
    ELSE station_of(self, PyFloor(PyTrueDiv(self.position, PyInt(100))))

\* __post_init__: the outcome of the construction, [raised, obj]
post_init(self) ==
    IF ~self.station.isNone
    THEN [raised |-> "", obj |-> self]
    ELSE station_of(self, PyFloor(PyTrueDiv(self.position, PyInt(100))))

\* the f-strings of lines 35-37, given cut and fill as floats: the format
\* code 'f' converts an int to float, which raises when it is out of range
repr_of(self, cut, fill) ==
    IF cut.ty = "error" THEN [raised |-> cut.exc, str |-> ""]
    ELSE IF fill.ty = "error" THEN [raised |-> fill.exc, str |-> ""]
    ELSE [raised |-> "",
          str |-> "STA " \o self.station.str \o " " \o
                  "cut: " \o Fmt03_0f(cut) \o " sq ft & " \o
                  "fill " \o Fmt03_0f(fill) \o " sq ft"]

\* __repr__, [raised, str]; f'{None}' is 'None', which no constructed
\* object holds
repr(self) == repr_of(self, ToFloat(self.cut), ToFloat(self.fill))

\* a distance without abs()
find_distance_to_signed(self, other) == PySub(other.position, self.position)

find_distance_to(self, other) == PyAbs(PySub(other.position, self.position))

\* a helper that converts to yards but forgets to average the two areas
find_cutfill_unaveraged(distance, cross_section_1, cross_section_2) ==
    PyTrueDiv(PyMul(distance, PyAdd(cross_section_1, cross_section_2)), PyInt(27))

find_cutfill(distance, cross_section_1, cross_section_2) ==
    PyTrueDiv(PyMul(distance, PyAdd(cross_section_1, cross_section_2)),
              PyInt(CutfillDivisor))

find_cut_to(self, other, swell) ==
    PyMul(find_cutfill(find_distance_to(self, other), self.cut, other.cut),
          PyAdd(One, swell))

\* a fill volume that forgets the shrink coefficient
find_fill_to_unscaled(self, other, shrink) ==
    find_cutfill(find_distance_to(self, other), self.fill, other.fill)

find_fill_to(self, other, shrink) ==
    PyMul(find_cutfill(find_distance_to(self, other), self.fill, other.fill),
          PyAdd(One, shrink))

\* a net volume that hands shrink to the cut and swell to the fill
find_earthwork_to_swapped(self, other, shrink, swell) ==
    PySub(find_cut_to(self, other, shrink), find_fill_to(self, other, swell))

find_earthwork_to(self, other, shrink, swell) ==
    PySub(find_cut_to(self, other, swell), find_fill_to(self, other, shrink))

(***************************************************************************)
(* main(): the lines it prints                                             *)
(***************************************************************************)
main_sections ==
    << post_init(EarthworkCrossSection(PyInt(1100), PyInt(350), PyInt(0), None)).obj,
       post_init(EarthworkCrossSection(PyInt(1200), PyInt(150), PyInt(0), None)).obj,
       post_init(EarthworkCrossSection(PyInt(1300), PyInt(0), PyInt(75), None)).obj >>

\* total_earthwork_volume; keyword arguments swell=.3, shrink=.1
main_earthwork(cs) ==
    PyAdd(find_earthwork_to(cs[1], cs[2], PyFloat(1, 10), PyFloat(3, 10)),
          find_earthwork_to(cs[2], cs[3], PyFloat(1, 10), PyFloat(3, 10)))

main_total == main_earthwork(main_sections)

main_print(cs) ==
    << repr(cs[1]).str, repr(cs[2]).str, repr(cs[3]).str,
       FmtComma1f(main_earthwork(cs)) \o " cubic yards of earthwork needed." >>

main_output == main_print(main_sections)

(***************************************************************************)
(* Inputs: ints and finite floats.  The fields are annotated float and     *)
(* nothing checks them, so that a caller may hand in any number; the       *)
(* largest and smallest magnitudes stand for the ones whose sums and       *)
(* products leave the range of a double.                                   *)
(***************************************************************************)
\* the variables that hold cross-sections in the calling program
Slots == {"a", "b"}

\* the float literal 1e308, 0x1.1ccf385ebc8a0p+1023
Huge == Finite(0, <<2208, 6063, 3896, 1139>>, 971)

\* the float literal 1e-200, 0x1.87e92154ef7acp-665
Tiny == Finite(0, <<14252, 5435, 10529, 1567>>, -717)

\* the int 10**18 + 199
BigPosition == PyAdd(PyMul(PyInt(10^9), PyInt(10^9)), PyInt(199))

\* constructor arguments <<position, cut, fill, _station>>: unequal, zero and
\* equal areas at positive and negative positions, areas whose sum is beyond
\* the largest double, a negative cut; a label that does not fit the
\* position; a fractional position with the empty label and without label;
\* two labelled positions whose distance is beyond the largest double
ConstructorArgs ==
    { <<PyInt(0),       PyInt(12),  PyInt(11), None>>,
      <<PyInt(100),     PyInt(0),   PyInt(0),  None>>,
      <<PyInt(1250),    PyInt(75),  PyInt(75), None>>,
      <<PyInt(-150),    PyInt(75),  PyInt(75), None>>,
      <<PyInt(0),       Huge,       Huge,      None>>,
      <<PyInt(100),     PyInt(-20), PyInt(0),  None>>,
      <<PyInt(1250),    PyInt(75),  PyInt(0),  Str("5+00")>>,
      <<PyFloat(25, 2), PyInt(75),  PyInt(0),  Str("")>>,
      <<PyFloat(25, 2), PyInt(0),   PyInt(0),  None>>,
      <<Huge,           PyInt(75),  PyInt(0),  Str("east")>>,
      <<FNeg(Huge),     PyInt(0),   PyInt(75), Str("west")>> }

\* swell and shrink coefficients; nothing restricts their range
Swells == {PyInt(-2), PyInt(-1), PyInt(0), PyFloat(1, 10)}

Shrinks == {PyInt(0), PyFloat(1, 10), PyFloat(1, 5)}

\* distances and areas handed to find_cutfill directly
Distances == {PyInt(0), PyInt(100), PyFloat(25, 2), Tiny}

Areas == {PyInt(0), PyInt(75), PyFloat(5, 2), Tiny, Huge}

\* largest |position| of the small positions of the station-label
\* specification
MaxPosition == 1300

(***************************************************************************)
(* State                                                                   *)
(*   objs    the live cross-sections, by the variable that holds them      *)
(*   call    the call that has just run: its name, receiver, operand and   *)
(*           arguments; op = "" once the caller has its result             *)
(*   ret     what the call returns or raises                               *)
(*   stdout  the lines it printed                                          *)
(***************************************************************************)
NoArgs == <<>>

Call(op, self, other, args) ==
    [op |-> op, self |-> self, other |-> other, args |-> args]

Returned(num, str) == [raised |-> "", num |-> num, str |-> str]

Raised(exc) == [raised |-> exc, num |-> Zero, str |-> ""]

\* the outcome of a call that computes the number v
Outcome(v) == IF v.ty = "error" THEN Raised(v.exc) ELSE Returned(v, "")

\* the outcome of a call that computes the string r
StrOutcome(r) == IF r.raised # "" THEN Raised(r.raised) ELSE Returned(Zero, r.str)

Init ==
    /\ objs = <<>>
    /\ call = Call("", "", "", NoArgs)
    /\ ret = Returned(Zero, "")
    /\ stdout = <<>>

(***************************************************************************)
(* Operations.  The program is sequential: a call starts when the one      *)
(* before it has returned.                                                 *)
(***************************************************************************)
Idle == call.op = ""

\* the effect of a construction whose __post_init__ ended as r
Constructed(s, r) ==
    IF r.raised = ""
    THEN /\ objs' = objs @@ (s :> r.obj)
         /\ ret' = Returned(Zero, "")
    ELSE /\ objs' = objs
         /\ ret' = Raised(r.raised)

\* s = EarthworkCrossSection(position, cut, fill, station)
Construct(s, position, cut, fill, station) ==
    /\ Idle
    /\ s \notin DOMAIN objs
    /\ call' = Call("__init__", s, "", <<position, cut, fill, station>>)
    /\ Constructed(s, post_init(EarthworkCrossSection(position, cut, fill, station)))
    /\ stdout' = <<>>

\* repr(s)
Repr(s) ==
    /\ Idle
    /\ s \in DOMAIN objs
    /\ call' = Call("__repr__", s, "", NoArgs)
    /\ ret' = StrOutcome(repr(objs[s]))
    /\ stdout' = <<>>
    /\ UNCHANGED objs

\* s.find_distance_to(o)
FindDistanceTo(s, o) ==
    /\ Idle
    /\ s \in DOMAIN objs /\ o \in DOMAIN objs
    /\ call' = Call("find_distance_to", s, o, NoArgs)
    /\ ret' = Outcome(find_distance_to(objs[s], objs[o]))
    /\ stdout' = <<>>
    /\ UNCHANGED objs

\* a find_cut_to that scales the receiver's cut area in place
FindCutTo_inplace(s, o, swell) ==
    /\ Idle
    /\ s \in DOMAIN objs /\ o \in DOMAIN objs
    /\ call' = Call("find_cut_to", s, o, <<swell>>)
    /\ ret' = Outcome(find_cut_to(objs[s], objs[o], swell))
    /\ stdout' = <<>>
    /\ objs' = [objs EXCEPT ![s].cut = PyMul(@, PyAdd(One, swell))]

\* s.find_cut_to(o, swell)
FindCutTo(s, o, swell) ==
    /\ Idle
    /\ s \in DOMAIN objs /\ o \in DOMAIN objs
    /\ call' = Call("find_cut_to", s, o, <<swell>>)
    /\ ret' = Outcome(find_cut_to(objs[s], objs[o], swell))
    /\ stdout' = <<>>
    /\ UNCHANGED objs

\* s.find_fill_to(o, shrink)
FindFillTo(s, o, shrink) ==
    /\ Idle
    /\ s \in DOMAIN objs /\ o \in DOMAIN objs
    /\ call' = Call("find_fill_to", s, o, <<shrink>>)
    /\ ret' = Outcome(find_fill_to(objs[s], objs[o], shrink))
    /\ stdout' = <<>>
    /\ UNCHANGED objs

\* s.find_earthwork_to(o, shrink, swell)
FindEarthworkTo(s, o, shrink, swell) ==
    /\ Idle
    /\ s \in DOMAIN objs /\ o \in DOMAIN objs
    /\ call' = Call("find_earthwork_to", s, o, <<shrink, swell>>)
    /\ ret' = Outcome(find_earthwork_to(objs[s], objs[o], shrink, swell))
    /\ stdout' = <<>>
    /\ UNCHANGED objs

\* EarthworkCrossSection.find_cutfill(distance, area1, area2)
FindCutfill(distance, cross_section_1, cross_section_2) ==
    /\ Idle
    /\ call' = Call("find_cutfill", "", "",
                    <<distance, cross_section_1, cross_section_2>>)
    /\ ret' = Outcome(find_cutfill(distance, cross_section_1, cross_section_2))
    /\ stdout' = <<>>
    /\ UNCHANGED objs

\* main(): builds its three local cross-sections, prints four lines
Main ==
    /\ Idle
    /\ call' = Call("main", "", "", NoArgs)
    /\ ret' = Returned(Zero, "")
    /\ stdout' = main_output
    /\ UNCHANGED objs

\* the call returns to its caller
Return ==
    /\ ~Idle
    /\ call' = Call("", "", "", NoArgs)
    /\ ret' = Returned(Zero, "")
    /\ stdout' = <<>>
    /\ UNCHANGED objs

Next ==
    \/ \E s \in Slots, a \in ConstructorArgs : Construct(s, a[1], a[2], a[3], a[4])
    \/ \E s \in Slots : Repr(s)
    \/ \E s \in Slots, o \in Slots : FindDistanceTo(s, o)
    \/ \E s \in Slots, o \in Slots, swell \in Swells : FindCutTo(s, o, swell)
    \/ \E s \in Slots, o \in Slots, shrink \in Shrinks : FindFillTo(s, o, shrink)
    \/ \E s \in Slots, o \in Slots, shrink \in Shrinks, swell \in Swells :
          FindEarthworkTo(s, o, shrink, swell)
    \/ \E distance \in Distances, a1 \in Areas, a2 \in Areas :
          FindCutfill(distance, a1, a2)
    \/ Main
    \/ Return

Spec == Init /\ [][Next]_vars

(***************************************************************************)
(* Station labels: one cross-section built without a label at every        *)
(* integer position of -MaxPosition..MaxPosition and at position           *)
(* 10**18 + 199, then printed                                              *)
(***************************************************************************)
StationPositions == {PyInt(p) : p \in -MaxPosition..MaxPosition} \cup {BigPosition}

NextStation ==
    \/ \E p \in StationPositions : Construct("a", p, PyInt(0), PyInt(0), None)
    \/ Repr("a")
    \/ Return

SpecStation == Init /\ [][NextStation]_vars

(***************************************************************************)
(* Properties.  They read the call that has just run (call, ret) and the   *)
(* operands it named.                                                      *)
(***************************************************************************)
Receiver == objs[call.self]

Operand == objs[call.other]

IsVolumeCall == call.op \in {"find_cut_to", "find_fill_to", "find_earthwork_to"}

\* the same result: equal numbers, or nan on both sides
Same(x, y) == NumEq(x, y) \/ (IsNan(x) /\ IsNan(y))

\* |b.position - a.position| by case distinction
ExpectedDistance(a, b) ==
    IF NumLt(b.position, a.position)
    THEN PySub(a.position, b.position)
    ELSE PySub(b.position, a.position)

\* d * (x + y) / 54 * (1 + k), evaluated left to right as Python does
ExpectedVolume(d, x, y, k) ==
    PyMul(PyTrueDiv(PyMul(d, PyAdd(x, y)), PyInt(54)), PyAdd(One, k))

\* d * (x + y) / 54
ExpectedCutfill(d, x, y) == PyTrueDiv(PyMul(d, PyAdd(x, y)), PyInt(54))

\* "{major}+{minor}" for the integer of sign s whose magnitude has the
\* quotient d.q and the remainder d.r by 100: major is the floor
ExpectedLabelOf(s, d) ==
    IF s = 0 \/ d.r = 0
    THEN IntStr(IntOf(s, d.q)) \o "+" \o Digit(d.r \div 10) \o Digit(d.r % 10)
    ELSE IntStr(IntOf(1, BAdd(d.q, <<1>>))) \o "+" \o
         Digit((100 - d.r) \div 10) \o Digit((100 - d.r) % 10)

\* the label "{major}+{minor}" of an integer position p, two-digit minor
ExpectedLabel(p) == ExpectedLabelOf(p.s, BDivSmall(p.m, 100))

\* C1: find_cut_to returns distance * (a.cut + b.cut) / 54 * (1 + swell) and
\* find_fill_to the same with fill and shrink; find_cutfill returns
\* distance * (area1 + area2) / 54; with equal areas and equal coefficient
\* the cut volume equals the fill volume.
C1_CutFillFormula ==
    /\ call.op \in {"find_cut_to", "find_fill_to", "find_cutfill"} => ret.raised = ""
    /\ call.op = "find_cut_to" =>
          /\ Same(ret.num, ExpectedVolume(ExpectedDistance(Receiver, Operand),
                                          Receiver.cut, Operand.cut, call.args[1]))
          /\ (NumEq(Receiver.cut, Receiver.fill) /\ NumEq(Operand.cut, Operand.fill))
                => Same(ret.num, find_fill_to(Receiver, Operand, call.args[1]))
    /\ call.op = "find_fill_to" =>
          Same(ret.num, ExpectedVolume(ExpectedDistance(Receiver, Operand),
                                       Receiver.fill, Operand.fill, call.args[1]))
    /\ call.op = "find_cutfill" =>
          Same(ret.num, ExpectedCutfill(call.args[1], call.args[2], call.args[3]))

\* a swelled cut volume between two distinct stations with equal, nonzero
\* cut and fill areas has been computed
C1_Witness ==
    /\ call.op = "find_cut_to"
    /\ call.args[1] = PyFloat(1, 10)
    /\ Receiver.cut = PyInt(75) /\ Receiver.fill = PyInt(75)
    /\ Operand.cut = PyInt(75) /\ Operand.fill = PyInt(75)
    /\ NumLt(Zero, ret.num)

\* C2: find_earthwork_to(b, shrink, swell) is the cut volume with swell
\* minus the fill volume with shrink, the two volumes being what find_cut_to
\* and find_fill_to return (d * (a + b) / 54 * (1 + coefficient) in float
\* arithmetic); it is positive exactly when the former exceeds the latter,
\* negative exactly when it is smaller.
C2_EarthworkIsCutMinusFill ==
    call.op = "find_earthwork_to" =>
        LET shrink == call.args[1]
            swell  == call.args[2]
            d      == ExpectedDistance(Receiver, Operand)
            cutv   == ExpectedVolume(d, Receiver.cut, Operand.cut, swell)
            fillv  == ExpectedVolume(d, Receiver.fill, Operand.fill, shrink)
        IN  /\ ret.raised = ""
            /\ Same(ret.num, PySub(cutv, fillv))
            /\ NumLt(Zero, ret.num) <=> NumLt(fillv, cutv)
            /\ NumLt(ret.num, Zero) <=> NumLt(cutv, fillv)

\* a net volume whose two terms differ only by float rounding: cut 12 with
\* swell 0.1 against fill 11 with shrink 0.2 over 100 ft, a positive result
C2_Witness ==
    /\ call.op = "find_earthwork_to"
    /\ call.args = <<PyFloat(1, 5), PyFloat(1, 10)>>
    /\ Receiver.position = PyInt(0) /\ Operand.position = PyInt(100)
    /\ Receiver.cut = PyInt(12) /\ Receiver.fill = PyInt(11)
    /\ Operand.cut = PyInt(0) /\ Operand.fill = PyInt(0)
    /\ NumLt(Zero, ret.num)
    /\ NumLt(find_fill_to(Receiver, Operand, PyFloat(1, 5)),
             find_cut_to(Receiver, Operand, PyFloat(1, 10)))

\* C3: a construction without an explicit label never fails, whatever the
\* position, and leaves an object whose label is set.
C3_ConstructionNeverFails ==
    (call.op = "__init__" /\ call.args[4].isNone) =>
        /\ ret.raised = ""
        /\ call.self \in DOMAIN objs
        /\ ~objs[call.self].station.isNone

\* C4: the label derived from an integer position p is "{major}+{minor}"
\* with major = floor(p/100), minor = p - 100*major in 0..99 printed with two
\* digits; major is 0 on [0, 100), 1100 gives "11+00", 1250 gives "12+50".
C4_DerivedLabel ==
    (call.op = "__init__" /\ call.args[4].isNone /\ call.args[1].ty = "int") =>
        LET p == call.args[1]
        IN  /\ ret.raised = ""
            /\ call.self \in DOMAIN objs
            /\ objs[call.self].station = Str(ExpectedLabel(p))
            /\ (NumLe(Zero, p) /\ NumLt(p, PyInt(100))) =>
                  objs[call.self].station.str =
                      "0+" \o Digit(IntValue(p) \div 10) \o Digit(IntValue(p) % 10)
            /\ p = PyInt(1100) => objs[call.self].station.str = "11+00"
            /\ p = PyInt(1250) => objs[call.self].station.str = "12+50"

\* C5: an explicit label is stored as supplied, whatever the position and
\* the label (the empty string included); the label is derived from the
\* position only when none is supplied.
C5_ExplicitLabelKept ==
    /\ (call.op = "__init__" /\ ~call.args[4].isNone) =>
          /\ ret.raised = ""
          /\ call.self \in DOMAIN objs
          /\ objs[call.self].station = call.args[4]
    /\ (call.op = "__init__" /\ call.args[4].isNone /\ ret.raised = "") =>
          /\ call.self \in DOMAIN objs
          /\ ~objs[call.self].station.isNone
          /\ objs[call.self].station # call.args[4]

\* a cross-section built with the empty label at a fractional position
C5_Witness ==
    /\ call.op = "__init__"
    /\ call.args[4] = Str("")
    /\ call.args[1] = PyFloat(25, 2)
    /\ call.self \in DOMAIN objs
    /\ objs[call.self].station = Str("")

\* C6 as stated: with both cut areas >= 0, find_cut_to is >= 0 for every
\* swell coefficient.
C6_CutNonNegative ==
    (/\ call.op = "find_cut_to"
     /\ NumLe(Zero, Receiver.cut)
     /\ NumLe(Zero, Operand.cut)) => (ret.raised = "" /\ NumLe(Zero, ret.num))

\* C7: between two cross-sections at the same position, find_cut_to,
\* find_fill_to and find_earthwork_to return 0.
C7_ZeroDistance ==
    (IsVolumeCall /\ NumEq(Receiver.position, Operand.position)) =>
        (ret.raised = "" /\ NumEq(ret.num, Zero))

\* C8: find_distance_to is |b.position - a.position|, >= 0 and the same in
\* both directions; find_cutfill is symmetric in its areas; swapping the
\* operands changes none of the three volumes.
C8_Symmetry ==
    /\ call.op = "find_distance_to" =>
          /\ ret.raised = ""
          /\ NumEq(ret.num, ExpectedDistance(Receiver, Operand))
          /\ NumLe(Zero, ret.num)
          /\ NumEq(ret.num, find_distance_to(Operand, Receiver))
    /\ call.op = "find_cutfill" =>
          Same(ret.num, find_cutfill(call.args[1], call.args[3], call.args[2]))
    /\ call.op = "find_cut_to" =>
          Same(ret.num, find_cut_to(Operand, Receiver, call.args[1]))
    /\ call.op = "find_fill_to" =>
          Same(ret.num, find_fill_to(Operand, Receiver, call.args[1]))
    /\ call.op = "find_earthwork_to" =>
          Same(ret.num, find_earthwork_to(Operand, Receiver, call.args[1], call.args[2]))

\* a distance from a positive position back to a negative one
C8_Witness ==
    /\ call.op = "find_distance_to"
    /\ Receiver.position = PyInt(1250)
    /\ Operand.position = PyInt(-150)
    /\ NumEq(ret.num, PyInt(1400))

\* C9: main's total, A->B plus B->C with shrink 0.1 and swell 0.3, rounds to
\* 1,412.0 at one decimal place: it lies between 1411.95 and 1412.05 and is
\* printed as "1,412.0".
C9_ReferenceTotal ==
    call.op = "main" =>
        /\ Len(stdout) = 4
        /\ stdout[4] = "1,412.0 cubic yards of earthwork needed."
        /\ NumLt(PyFloat(141195, 100), main_total)
        /\ NumLt(main_total, PyFloat(141205, 100))

\* main has run and printed its three cross-sections
C9_Witness ==
    /\ call.op = "main"
    /\ Len(stdout) = 4
    /\ stdout[1] = "STA 11+00 cut: 350 sq ft & fill 000 sq ft"
    /\ stdout[2] = "STA 12+00 cut: 150 sq ft & fill 000 sq ft"
    /\ stdout[3] = "STA 13+00 cut: 000 sq ft & fill 075 sq ft"

\* C10: no call changes position, cut, fill or the label of a constructed
\* cross-section, and a cross-section holds nothing but these four fields.
C10_Immutable ==
    [][\A s \in DOMAIN objs :
          /\ s \in DOMAIN objs'
          /\ objs'[s] = objs[s]
          /\ DOMAIN objs'[s] = {"position", "cut", "fill", "station"}]_vars

\* a swelled cut volume has been computed between two live cross-sections
\* with a nonzero cut area
C10_Witness ==
    /\ call.op = "find_cut_to"
    /\ DOMAIN objs = Slots
    /\ call.self # call.other
    /\ call.args[1] = PyFloat(1, 10)
    /\ NumLt(Zero, Receiver.cut)

====
